---- MODULE Spec2Model ----
(***************************************************************************)
(* Model of capture_traffic.py: the checkpoint traffic-camera capture      *)
(* pipeline (feed client, watchlist filter, image downloader, metadata     *)
(* writer, summary/report generator) and the archive it writes.            *)
(*                                                                         *)
(* Text values the code inspects character by character (content types,    *)
(* camera locations, keywords) are sequences of one-character strings.     *)
(* A wall-clock reading is a tick count; strftime splits it into a date    *)
(* key and a time-of-day key.  Time passes between processes: a process    *)
(* reads the clock when it starts, at or after the last reading, and any   *)
(* number of processes may start within one tick.                          *)
(*                                                                         *)
(* download_image handles the failures of its own write (lines 70-89) and  *)
(* they are modelled; the writes of the metadata document, summary.json    *)
(* and README.md have no handler and are taken to succeed.                 *)
(***************************************************************************)
EXTENDS Integers, Sequences, FiniteSets, TLC

VARIABLES
    clock,                \* the wall clock, in ticks
    dirs,                 \* date directories that exist under OUTPUT_DIR
    images,               \* camera_*.jpg files: path -> content
    metas,                \* metadata_*.json files: path -> document
    summary,              \* OUTPUT_DIR/summary.json
    readme,               \* OUTPUT_DIR/README.md
    pc,                   \* position of the running process, "idle" when none runs
    outcome,              \* how the last process ended
    runs,                 \* processes started so far
    apiKey,               \* LTA_API_KEY of the running process
    now,                  \* capture_checkpoint_cameras: now
    feed,                 \* the upstream API's response to this run
    cameras,              \* capture_checkpoint_cameras: cameras
    checkpoint_cameras,   \* capture_checkpoint_cameras: checkpoint_cameras
    usedFallback,         \* the branch of line 124 was taken
    idx,                  \* position of the per-camera loop
    metadata,             \* capture_checkpoint_cameras: metadata
    successful_downloads,
    failed_downloads,
    log,                  \* console: the outcome printed for each camera
    written,              \* files this process opened for writing, in order
    apiCalls,             \* GETs this process sent to API_URL
    imgCalls,             \* GETs this process sent to image links
    before,               \* the archive as it was when this process started
    scanned,              \* the directory tree as generate_summary last saw it
    dl                    \* a direct call of download_image: arguments, result

vars == <<clock, dirs, images, metas, summary, readme, pc, outcome, runs,
          apiKey, now, feed, cameras, checkpoint_cameras, usedFallback, idx,
          metadata, successful_downloads, failed_downloads, log, written,
          apiCalls, imgCalls, before, scanned, dl>>

archive == <<dirs, images, metas, summary, readme>>
locals  == <<apiKey, now, feed, cameras, checkpoint_cameras, usedFallback, idx,
             metadata, successful_downloads, failed_downloads, log>>

----------------------------------------------------------------------------
(* Bounds of the model *)

MaxRuns == 2
MaxCams == 2
MaxClock == 2

\* A day of the model lasts MaxClock ticks: the clock's last reading falls
\* on the second day.
TicksPerDay == MaxClock

(* Program constants *)

MinImageBytes == 1000
RecentDays == 7

----------------------------------------------------------------------------
(* Text *)

UpperCase == <<"A","B","C","D","E","F","G","H","I","J","K","L","M",
               "N","O","P","Q","R","S","T","U","V","W","X","Y","Z">>
LowerCase == <<"a","b","c","d","e","f","g","h","i","j","k","l","m",
               "n","o","p","q","r","s","t","u","v","w","x","y","z">>

LowerChar(c) ==
    IF \E i \in 1..Len(UpperCase) : UpperCase[i] = c
    THEN LowerCase[CHOOSE i \in 1..Len(UpperCase) : UpperCase[i] = c]
    ELSE c

\* str.lower()
Lower(s) == [i \in 1..Len(s) |-> LowerChar(s[i])]

\* sub in s
Contains(sub, s) ==
    \E i \in 0..(Len(s) - Len(sub)) : SubSeq(s, i + 1, i + Len(sub)) = sub

STR_image     == <<"i","m","a","g","e">>
STR_tuas      == <<"t","u","a","s">>
STR_woodlands == <<"w","o","o","d","l","a","n","d","s">>
STR_causeway  == <<"c","a","u","s","e","w","a","y">>

CHECKPOINT_CAMERA_IDS == <<"2701", "2702", "4703", "4713", "4714">>
LOCATION_KEYWORDS == <<STR_tuas, STR_woodlands, STR_causeway>>

InList(x, list) == \E i \in 1..Len(list) : list[i] = x

----------------------------------------------------------------------------
(* Time *)

\* now.strftime('%Y-%m-%d'), now.strftime('%H-%M-%S')
DateOf(t) == t \div TicksPerDay
TimeOf(t) == t % TicksPerDay

----------------------------------------------------------------------------
(* Paths under OUTPUT_DIR.  A date directory is named by its date key; a    *)
(* file is named by the parts its name is formatted from.                   *)

\* ImageFilename with the time of day left out of the name
ImageFilenameWithoutTime(camera_id, date, time) ==
    [prefix |-> "camera", id |-> camera_id, date |-> date, time |-> 0]

\* f"camera_{camera_id}_{date_folder}_{time_str}.jpg"
ImageFilename(camera_id, date, time) ==
    [prefix |-> "camera", id |-> camera_id, date |-> date, time |-> time]

\* f"metadata_{date_folder}_{time_str}.json"
MetadataFilename(date, time) ==
    [prefix |-> "metadata", id |-> "", date |-> date, time |-> time]

\* daily_dir / filename
PathIn(dir, filename) == [dir |-> dir, name |-> filename]

\* OUTPUT_DIR / 'summary.json', OUTPUT_DIR / 'README.md'
RootDir == -1
SummaryPath == PathIn(RootDir, [prefix |-> "summary", id |-> "", date |-> 0, time |-> 0])
ReadmePath  == PathIn(RootDir, [prefix |-> "README", id |-> "", date |-> 0, time |-> 0])

\* date_dir.glob('metadata_*.json'), date_dir.glob('camera_*.jpg')
MetadataFilesIn(d, mts) == {p \in DOMAIN mts : p.dir = d /\ p.name.prefix = "metadata"}
ImageFilesIn(d, imgs)   == {p \in DOMAIN imgs : p.dir = d /\ p.name.prefix = "camera"}

EmptyMap == [p \in {} |-> 0]

----------------------------------------------------------------------------
(* Upstream camera records *)

CamTuas ==
    [CameraID |-> "4713", Location |-> <<"T","u","a","s">>,
     ImageLink |-> "https://img/4713", Latitude |-> 1, Longitude |-> 103]
CamCauseway ==
    [CameraID |-> "2701", Location |-> <<"C","a","u","s","e","w","a","y">>,
     ImageLink |-> "", Latitude |-> 1, Longitude |-> 103]
CamWoodlandsAve ==
    [CameraID |-> "9001", Location |-> <<"W","o","o","d","l","a","n","d","s"," ","A","v","e">>,
     ImageLink |-> "https://img/9001", Latitude |-> 1, Longitude |-> 103]
CamECP ==
    [CameraID |-> "9002", Location |-> <<"E","C","P">>,
     ImageLink |-> "https://img/9002", Latitude |-> 1, Longitude |-> 103]

CamTuasWest ==
    [CameraID |-> "9003", Location |-> <<"T","U","A","S"," ","W">>,
     ImageLink |-> "https://img/9003", Latitude |-> 1, Longitude |-> 103]

CameraRecords == {CamTuas, CamCauseway, CamWoodlandsAve, CamECP, CamTuasWest}

\* The records the upstream feed of a run is made of.
FeedRecords == {CamTuas, CamCauseway, CamECP}

CameraLists == UNION {[1..n -> FeedRecords] : n \in 0..MaxCams}

\* The lists the watchlist filter is applied to on its own.
FilterInputs == UNION {[1..n -> CameraRecords] : n \in 0..(MaxCams + 1)}

\* What the GET of API_URL can come back with.
FeedErrorKinds == {"timeout", "http_error", "not_json",
                   "json_not_object", "value_null", "value_missing"}
FeedResponses ==
    {[kind |-> k, value |-> <<>>] : k \in FeedErrorKinds}
    \cup {[kind |-> "value_list", value |-> l] : l \in CameraLists}

\* get_traffic_images: timeouts, HTTP errors and undecodable bodies are
\* RequestExceptions and are caught; a body that decodes to something other
\* than an object fails at data.get, a null 'value' at len(cameras), and
\* neither is a RequestException.
get_traffic_images(resp) ==
    CASE resp.kind \in {"timeout", "http_error", "not_json"} ->
             [raised |-> FALSE, cameras |-> <<>>]
      [] resp.kind \in {"json_not_object", "value_null"} ->
             [raised |-> TRUE, cameras |-> <<>>]
      [] resp.kind = "value_missing" ->
             [raised |-> FALSE, cameras |-> <<>>]
      [] OTHER ->
             [raised |-> FALSE, cameras |-> resp.value]

----------------------------------------------------------------------------
(* Watchlist filter *)

IdMatch(cam) == InList(cam.CameraID, CHECKPOINT_CAMERA_IDS)

KeywordMatch(cam) ==
    \E k \in 1..Len(LOCATION_KEYWORDS) :
        Contains(LOCATION_KEYWORDS[k], Lower(cam.Location))

\* FallbackNeeded that also fires on a single identifier match
FallbackWhenFew(by_id) == Len(by_id) < 2

\* if not checkpoint_cameras
FallbackNeeded(by_id) == Len(by_id) = 0

select_checkpoint_cameras(cams) ==
    LET by_id == SelectSeq(cams, IdMatch)
    IN  IF FallbackNeeded(by_id)
        THEN [fallback |-> TRUE, selected |-> SelectSeq(cams, KeywordMatch)]
        ELSE [fallback |-> FALSE, selected |-> by_id]

----------------------------------------------------------------------------
(* Image downloader *)

ContentTypes ==
    {<<"i","m","a","g","e","/","j","p","e","g">>,
     <<"I","M","A","G","E","/","P","N","G">>,
     <<"t","e","x","t","/","h","t","m","l">>}

BodyLengths == {0, MinImageBytes - 1, MinImageBytes, MinImageBytes + 1}

NoResponse(k) ==
    [kind |-> k, has_content_type |-> FALSE, content_type |-> <<>>, length |-> 0]

Response(c, n) ==
    [kind |-> "ok", has_content_type |-> TRUE, content_type |-> c, length |-> n]

\* What download_image is called with on its own: every way the GET can fail,
\* and every content type and body length, with or without the header.
DownloadInputs ==
    {NoResponse(k) : k \in {"timeout", "connection_error", "http_error"}}
    \cup {Response(c, n) : c \in ContentTypes, n \in BodyLengths}
    \cup {[Response(<<>>, n) EXCEPT !.has_content_type = FALSE] : n \in BodyLengths}

\* What the GET of an image link comes back with during a run.
ImageResponses ==
    {NoResponse("timeout"), NoResponse("http_error")}
    \cup {Response(c, n) : c \in {<<"i","m","a","g","e","/","j","p","e","g">>,
                                  <<"t","e","x","t","/","h","t","m","l">>},
                           n \in {MinImageBytes - 1, MinImageBytes}}

\* How open(save_path, 'wb') and f.write can go: both succeed, open raises
\* (nothing is created), or write raises after open created or truncated
\* the file, with none or all but one of the bytes on disk.
WriteOutcomes == {"ok", "open_fails", "write_fails_at_once", "write_fails_midway"}

\* The write failures of a run leave all but one of the bytes.
RunWriteOutcomes == {"ok", "open_fails", "write_fails_midway"}

\* A file holding the first n bytes of a body of total bytes.
Bytes(n, total) == [length |-> n, of |-> total]

Complete(content) == content.length = content.of

\* response.headers.get('content-type', '')
ContentTypeOf(resp) == IF resp.has_content_type THEN resp.content_type ELSE <<>>

IsImage(resp) == Contains(STR_image, Lower(ContentTypeOf(resp)))

BigEnough(resp) == ~(resp.length < MinImageBytes)

Put(map, p, v) == [q \in DOMAIN map \cup {p} |-> IF q = p THEN v ELSE map[q]]

\* download_image without the check of the body's length
download_image_unsized(resp, w, save_path, imgs) ==
    LET fail(msg) == [ret |-> FALSE, msg |-> msg, opened |-> FALSE, images |-> imgs]
        after == Put(imgs, save_path, Bytes(resp.length, resp.length))
    IN  CASE resp.kind = "timeout" -> fail("timeout")
          [] resp.kind \in {"connection_error", "http_error"} -> fail("request_failed")
          [] resp.kind = "ok" /\ ~IsImage(resp) -> fail("not_image")
          [] OTHER ->
               CASE w = "open_fails" -> fail("unexpected_error")
                 [] w \in {"write_fails_at_once", "write_fails_midway"} ->
                      [ret |-> FALSE, msg |-> "unexpected_error", opened |-> TRUE,
                       images |-> Put(imgs, save_path, Bytes(0, resp.length))]
                 [] OTHER ->
                      IF after[save_path].length > 0
                      THEN [ret |-> TRUE, msg |-> "saved", opened |-> TRUE,
                            images |-> after]
                      ELSE [ret |-> FALSE, msg |-> "write_check_failed",
                            opened |-> TRUE, images |-> after]

\* download_image writing the body before it validates the response
download_image_write_first(resp, w, save_path, imgs) ==
    LET after == Put(imgs, save_path, Bytes(resp.length, resp.length))
    IN  CASE resp.kind = "timeout" ->
               [ret |-> FALSE, msg |-> "timeout", opened |-> FALSE, images |-> imgs]
          [] resp.kind \in {"connection_error", "http_error"} ->
               [ret |-> FALSE, msg |-> "request_failed", opened |-> FALSE, images |-> imgs]
          [] w = "open_fails" ->
               [ret |-> FALSE, msg |-> "unexpected_error", opened |-> FALSE,
                images |-> imgs]
          [] w \in {"write_fails_at_once", "write_fails_midway"} ->
               [ret |-> FALSE, msg |-> "unexpected_error", opened |-> TRUE,
                images |-> Put(imgs, save_path, Bytes(0, resp.length))]
          [] ~IsImage(resp) ->
               [ret |-> FALSE, msg |-> "not_image", opened |-> TRUE, images |-> after]
          [] ~BigEnough(resp) ->
               [ret |-> FALSE, msg |-> "too_small", opened |-> TRUE, images |-> after]
          [] OTHER ->
               [ret |-> TRUE, msg |-> "saved", opened |-> TRUE, images |-> after]

\* download_image(image_url, save_path): the value returned, the message
\* printed, whether save_path was opened for writing, and the image files
\* afterwards.
download_image(resp, w, save_path, imgs) ==
    LET fail(msg) == [ret |-> FALSE, msg |-> msg, opened |-> FALSE, images |-> imgs]
    IN  CASE resp.kind = "timeout" -> fail("timeout")
          [] resp.kind \in {"connection_error", "http_error"} -> fail("request_failed")
          [] resp.kind = "ok" /\ ~IsImage(resp) -> fail("not_image")
          [] resp.kind = "ok" /\ IsImage(resp) /\ ~BigEnough(resp) -> fail("too_small")
          [] OTHER ->
               CASE w = "open_fails" -> fail("unexpected_error")
                 [] w = "write_fails_at_once" ->
                      [ret |-> FALSE, msg |-> "unexpected_error", opened |-> TRUE,
                       images |-> Put(imgs, save_path, Bytes(0, resp.length))]
                 [] w = "write_fails_midway" ->
                      [ret |-> FALSE, msg |-> "unexpected_error", opened |-> TRUE,
                       images |-> Put(imgs, save_path,
                                      Bytes(resp.length - 1, resp.length))]
                 [] OTHER ->
                      LET after == Put(imgs, save_path, Bytes(resp.length, resp.length))
                      IN  IF save_path \in DOMAIN after /\ after[save_path].length > 0
                          THEN [ret |-> TRUE, msg |-> "saved", opened |-> TRUE,
                                images |-> after]
                          ELSE [ret |-> FALSE, msg |-> "write_check_failed",
                                opened |-> TRUE, images |-> after]

----------------------------------------------------------------------------
(* Summary and report *)

RECURSIVE SortedSeq(_)
\* sorted(...)
SortedSeq(S) ==
    IF S = {} THEN <<>>
    ELSE LET m == CHOOSE x \in S : \A y \in S : x <= y
         IN  <<m>> \o SortedSeq(S \ {m})

Reverse(s) == [i \in 1..Len(s) |-> s[Len(s) + 1 - i]]

Take(s, n) == SubSeq(s, 1, IF Len(s) < n THEN Len(s) ELSE n)

RECURSIVE SumCaptures(_)
SumCaptures(days) ==
    IF days = <<>> THEN 0 ELSE Head(days).captures + SumCaptures(Tail(days))

\* ScanDay reporting the image count as the day's captures
ScanDayByImages(d, imgs, mts) ==
    [date |-> d,
     captures |-> Cardinality(ImageFilesIn(d, imgs)),
     images |-> Cardinality(ImageFilesIn(d, imgs))]

\* one pass of the loop over sorted(OUTPUT_DIR.iterdir())
ScanDay(d, imgs, mts) ==
    [date |-> d,
     captures |-> Cardinality(MetadataFilesIn(d, mts)),
     images |-> Cardinality(ImageFilesIn(d, imgs))]

NoSummary ==
    [exists |-> FALSE, last_updated |-> 0, timezone |-> "",
     total_days |-> 0, total_captures |-> 0, days |-> <<>>]

\* the summary dict generate_summary builds and dumps
BuildSummary(t, ds, imgs, mts) ==
    LET order == SortedSeq(ds)
        days  == [i \in 1..Len(order) |-> ScanDay(order[i], imgs, mts)]
    IN  [exists |-> TRUE, last_updated |-> t, timezone |-> "Asia/Singapore (SGT)",
         total_days |-> Len(days), total_captures |-> SumCaptures(days),
         days |-> days]

NoReadme ==
    [exists |-> FALSE, last_updated |-> 0, total_days |-> 0,
     total_captures |-> 0, recent |-> <<>>]

\* generate_readme(summary); days reach it sorted ascending by date
BuildReadme(s) ==
    [exists |-> TRUE, last_updated |-> s.last_updated, total_days |-> s.total_days,
     total_captures |-> s.total_captures,
     recent |-> Take(Reverse(s.days), RecentDays)]

----------------------------------------------------------------------------
(* The state before anything has run: no archive, no process *)

Snapshot == [dirs |-> dirs, images |-> images, metas |-> metas,
             summary |-> summary, readme |-> readme]

Tree == [dirs |-> dirs, images |-> images, metas |-> metas]

NoFeed == [kind |-> "none", value |-> <<>>]

NoMetadata == [timestamp |-> 0, date |-> 0, time |-> 0, timezone |-> "", cameras |-> <<>>]

NoCall == [state |-> "none", resp |-> [kind |-> "timeout", has_content_type |-> FALSE,
                                       content_type |-> <<>>, length |-> 0],
           w |-> "ok", save_path |-> PathIn(0, ImageFilename("", 0, 0)),
           ret |-> FALSE, msg |-> "", opened |-> FALSE]

NoArchive == [dirs |-> {}, images |-> EmptyMap, metas |-> EmptyMap,
              summary |-> NoSummary, readme |-> NoReadme]

Init ==
    /\ clock = 0
    /\ dirs = {}
    /\ images = EmptyMap
    /\ metas = EmptyMap
    /\ summary = NoSummary
    /\ readme = NoReadme
    /\ pc = "idle"
    /\ outcome = "none"
    /\ runs = 0
    /\ apiKey = ""
    /\ now = 0
    /\ feed = NoFeed
    /\ cameras = <<>>
    /\ checkpoint_cameras = <<>>
    /\ usedFallback = FALSE
    /\ idx = 1
    /\ metadata = NoMetadata
    /\ successful_downloads = 0
    /\ failed_downloads = 0
    /\ log = <<>>
    /\ written = <<>>
    /\ apiCalls = 0
    /\ imgCalls = 0
    /\ before = NoArchive
    /\ scanned = [dirs |-> {}, images |-> EmptyMap, metas |-> EmptyMap]
    /\ dl = NoCall

----------------------------------------------------------------------------
(* capture_checkpoint_cameras, step by step *)

\* the key check left out
NeverAborts(key) == FALSE

\* if not LTA_API_KEY
AbortsOnMissingKey(key) == key = ""

\* A process starts: the key check, the clock reading, the mkdir of the
\* date directory.
Start ==
    /\ pc = "idle"
    /\ runs < MaxRuns
    /\ \E key \in {"", "secret"}, t \in clock..MaxClock :
         /\ runs' = runs + 1
         /\ apiKey' = key
         /\ before' = Snapshot
         /\ written' = <<>>
         /\ apiCalls' = 0
         /\ imgCalls' = 0
         /\ feed' = NoFeed
         /\ cameras' = <<>>
         /\ checkpoint_cameras' = <<>>
         /\ usedFallback' = FALSE
         /\ idx' = 1
         /\ metadata' = NoMetadata
         /\ successful_downloads' = 0
         /\ failed_downloads' = 0
         /\ log' = <<>>
         /\ IF AbortsOnMissingKey(key)
            THEN /\ t = clock
                 /\ pc' = "exit"
                 /\ outcome' = "config_error"
                 /\ UNCHANGED <<clock, now, dirs>>
            ELSE /\ clock' = t
                 /\ now' = t
                 /\ dirs' = dirs \cup {DateOf(t)}
                 /\ pc' = "fetch"
                 /\ outcome' = "running"
    /\ UNCHANGED <<images, metas, summary, readme, scanned, dl>>

\* cameras = get_traffic_images(); if not cameras: return
Fetch ==
    /\ pc = "fetch"
    /\ \E resp \in FeedResponses :
         LET r == get_traffic_images(resp)
         IN  /\ feed' = resp
             /\ apiCalls' = apiCalls + 1
             /\ cameras' = r.cameras
             /\ IF r.raised
                THEN pc' = "exit" /\ outcome' = "crashed"
                ELSE IF Len(r.cameras) = 0
                     THEN pc' = "exit" /\ outcome' = "no_data"
                     ELSE pc' = "filter" /\ UNCHANGED outcome
    /\ UNCHANGED <<clock, archive, runs, apiKey, now, checkpoint_cameras, usedFallback,
                   idx, metadata, successful_downloads, failed_downloads, log,
                   written, imgCalls, before, scanned, dl>>

\* the watchlist filter
Filter ==
    /\ pc = "filter"
    /\ LET f == select_checkpoint_cameras(cameras)
       IN  /\ checkpoint_cameras' = f.selected
           /\ usedFallback' = f.fallback
    /\ pc' = "selected"
    /\ UNCHANGED <<clock, archive, outcome, runs, apiKey, now, feed, cameras, idx,
                   metadata, successful_downloads, failed_downloads, log,
                   written, apiCalls, imgCalls, before, scanned, dl>>

\* the initial metadata and counters; the feed's response and the full
\* camera list are not read again
Prepare ==
    /\ pc = "selected"
    /\ feed' = NoFeed
    /\ cameras' = <<>>
    /\ metadata' = [timestamp |-> now, date |-> DateOf(now), time |-> TimeOf(now),
                    timezone |-> "Asia/Singapore (SGT)", cameras |-> <<>>]
    /\ successful_downloads' = 0
    /\ failed_downloads' = 0
    /\ idx' = 1
    /\ pc' = "loop"
    /\ UNCHANGED <<clock, archive, outcome, runs, apiKey, now, checkpoint_cameras,
                   usedFallback, log, written, apiCalls, imgCalls, before, scanned, dl>>

\* CountFailed without the count of the cameras that have no image link
CountFailedDownloadsOnly(failed, image_url, ok) ==
    IF image_url # ""
    THEN IF ok THEN failed ELSE failed + 1
    ELSE failed

\* failed_downloads after one pass of the loop
CountFailed(failed, image_url, ok) ==
    IF image_url # ""
    THEN IF ok THEN failed ELSE failed + 1
    ELSE failed + 1

MetadataEntry(camera, filename) ==
    [camera_id |-> camera.CameraID, location |-> camera.Location,
     filename |-> filename, image_url |-> camera.ImageLink,
     latitude |-> camera.Latitude, longitude |-> camera.Longitude]

\* one pass of: for camera in checkpoint_cameras
LoopStep ==
    /\ pc = "loop"
    /\ idx <= Len(checkpoint_cameras)
    /\ LET camera    == checkpoint_cameras[idx]
           filename  == ImageFilename(camera.CameraID, DateOf(now), TimeOf(now))
           save_path == PathIn(DateOf(now), filename)
       IN  IF camera.ImageLink # ""
           THEN \E resp \in ImageResponses, w \in RunWriteOutcomes :
                  LET r == download_image(resp, w, save_path, images)
                  IN  /\ images' = r.images
                      /\ imgCalls' = imgCalls + 1
                      /\ written' = IF r.opened THEN Append(written, save_path)
                                    ELSE written
                      /\ log' = Append(log, IF r.ret THEN "saved" ELSE "download_failed")
                      /\ metadata' =
                           IF r.ret
                           THEN [metadata EXCEPT
                                   !.cameras = Append(@, MetadataEntry(camera, filename))]
                           ELSE metadata
                      /\ successful_downloads' =
                           IF r.ret THEN successful_downloads + 1
                           ELSE successful_downloads
                      /\ failed_downloads' =
                           CountFailed(failed_downloads, camera.ImageLink, r.ret)
           ELSE /\ log' = Append(log, "no_url")
                /\ failed_downloads' =
                     CountFailed(failed_downloads, camera.ImageLink, FALSE)
                /\ UNCHANGED <<images, imgCalls, written, metadata, successful_downloads>>
    /\ idx' = idx + 1
    /\ UNCHANGED <<clock, dirs, metas, summary, readme, pc, outcome, runs, apiKey, now,
                   feed, cameras, checkpoint_cameras, usedFallback, apiCalls, before,
                   scanned, dl>>

\* WriteMetadata that writes the document only when a download succeeded
WriteMetadataIfAny ==
    /\ pc = "loop"
    /\ idx > Len(checkpoint_cameras)
    /\ LET metadata_file == PathIn(DateOf(now), MetadataFilename(DateOf(now), TimeOf(now)))
       IN  IF successful_downloads > 0
           THEN /\ metas' = Put(metas, metadata_file, metadata)
                /\ written' = Append(written, metadata_file)
           ELSE UNCHANGED <<metas, written>>
    /\ pc' = "summary"
    /\ UNCHANGED <<clock, dirs, images, summary, readme, outcome, runs, locals,
                   apiCalls, imgCalls, before, scanned, dl>>

\* the loop has ended: json.dump(metadata) into metadata_<date>_<time>.json
WriteMetadata ==
    /\ pc = "loop"
    /\ idx > Len(checkpoint_cameras)
    /\ LET metadata_file == PathIn(DateOf(now), MetadataFilename(DateOf(now), TimeOf(now)))
       IN  /\ metas' = Put(metas, metadata_file, metadata)
           /\ written' = Append(written, metadata_file)
    /\ pc' = "summary"
    /\ UNCHANGED <<clock, dirs, images, summary, readme, outcome, runs, locals,
                   apiCalls, imgCalls, before, scanned, dl>>

\* generate_summary adding the captures it counts to the total of the
\* summary on disk
generate_summary_incremental(t, trace) ==
    IF dirs = {}
    THEN /\ written' = trace
         /\ UNCHANGED <<summary, readme, scanned>>
    ELSE LET fresh == BuildSummary(t, dirs, images, metas)
             kept  == [fresh EXCEPT
                         !.total_captures = summary.total_captures + fresh.total_captures]
         IN  /\ summary' = kept
             /\ readme' = BuildReadme(kept)
             /\ written' = trace \o <<SummaryPath, ReadmePath>>
             /\ scanned' = Tree

\* generate_summary() reading the clock at t, called by a process that has
\* opened the files of trace so far
generate_summary(t, trace) ==
    IF dirs = {}
    THEN /\ written' = trace
         /\ UNCHANGED <<summary, readme, scanned>>
    ELSE /\ summary' = BuildSummary(t, dirs, images, metas)
         /\ readme' = BuildReadme(BuildSummary(t, dirs, images, metas))
         /\ written' = trace \o <<SummaryPath, ReadmePath>>
         /\ scanned' = Tree

\* the call of generate_summary that ends a run; it stamps the summary with
\* the tick the run started in
Summarise ==
    /\ pc = "summary"
    /\ generate_summary(clock, written)
    /\ pc' = "exit"
    /\ outcome' = "completed"
    /\ UNCHANGED <<clock, dirs, images, metas, runs, locals, apiCalls, imgCalls,
                   before, dl>>

\* The process ends, and what it held in memory with it.
Exit ==
    /\ pc = "exit"
    /\ pc' = "idle"
    /\ outcome' = "none"
    /\ apiKey' = ""
    /\ now' = 0
    /\ feed' = NoFeed
    /\ cameras' = <<>>
    /\ checkpoint_cameras' = <<>>
    /\ usedFallback' = FALSE
    /\ idx' = 1
    /\ metadata' = NoMetadata
    /\ successful_downloads' = 0
    /\ failed_downloads' = 0
    /\ log' = <<>>
    /\ written' = <<>>
    /\ apiCalls' = 0
    /\ imgCalls' = 0
    /\ before' = NoArchive
    /\ UNCHANGED <<clock, archive, runs, scanned, dl>>

Next == Start \/ Fetch \/ Filter \/ Prepare \/ LoopStep \/ WriteMetadata \/ Summarise \/ Exit

Spec == Init /\ [][Next]_vars

----------------------------------------------------------------------------
(* generate_summary called on its own, between runs *)

GenerateSummaryCall ==
    /\ pc = "idle"
    /\ \E t \in clock..MaxClock :
         /\ clock' = t
         /\ generate_summary(t, <<>>)
    /\ before' = Snapshot
    /\ pc' = "exit"
    /\ outcome' = "summarised"
    /\ UNCHANGED <<dirs, images, metas, runs, locals, apiCalls, imgCalls, dl>>

NextGen == Next \/ GenerateSummaryCall

SpecGen == Init /\ [][NextGen]_vars

----------------------------------------------------------------------------
(* The watchlist filter on its own: a run that has fetched any of the      *)
(* non-empty lists of FilterInputs                                          *)

InitFilter ==
    /\ clock = 0
    /\ dirs = {DateOf(0)}
    /\ images = EmptyMap
    /\ metas = EmptyMap
    /\ summary = NoSummary
    /\ readme = NoReadme
    /\ pc = "filter"
    /\ outcome = "running"
    /\ runs = 1
    /\ apiKey = "secret"
    /\ now = 0
    /\ cameras \in {l \in FilterInputs : Len(l) > 0}
    /\ feed = [kind |-> "value_list", value |-> cameras]
    /\ checkpoint_cameras = <<>>
    /\ usedFallback = FALSE
    /\ idx = 1
    /\ metadata = NoMetadata
    /\ successful_downloads = 0
    /\ failed_downloads = 0
    /\ log = <<>>
    /\ written = <<>>
    /\ apiCalls = 1
    /\ imgCalls = 0
    /\ before = NoArchive
    /\ scanned = [dirs |-> {}, images |-> EmptyMap, metas |-> EmptyMap]
    /\ dl = NoCall

SpecFilter == InitFilter /\ [][Filter]_vars

----------------------------------------------------------------------------
(* download_image on its own: any response, any way the write can go, onto *)
(* a destination that exists already or does not                           *)

Destination == PathIn(DateOf(0), ImageFilename("4713", DateOf(0), TimeOf(0)))

InitDownload ==
    /\ clock = 0
    /\ dirs = {DateOf(0)}
    /\ images \in {EmptyMap,
                    Put(EmptyMap, Destination, Bytes(MinImageBytes + 1, MinImageBytes + 1))}
    /\ metas = EmptyMap
    /\ summary = NoSummary
    /\ readme = NoReadme
    /\ pc = "idle"
    /\ outcome = "none"
    /\ runs = 0
    /\ apiKey = ""
    /\ now = 0
    /\ feed = NoFeed
    /\ cameras = <<>>
    /\ checkpoint_cameras = <<>>
    /\ usedFallback = FALSE
    /\ idx = 1
    /\ metadata = NoMetadata
    /\ successful_downloads = 0
    /\ failed_downloads = 0
    /\ log = <<>>
    /\ written = <<>>
    /\ apiCalls = 0
    /\ imgCalls = 0
    /\ before = [NoArchive EXCEPT !.dirs = dirs, !.images = images]
    /\ scanned = [dirs |-> {}, images |-> EmptyMap, metas |-> EmptyMap]
    /\ \E resp \in DownloadInputs, w \in WriteOutcomes :
         dl = [NoCall EXCEPT !.state = "call", !.resp = resp, !.w = w,
                             !.save_path = Destination]

DownloadCall ==
    /\ dl.state = "call"
    /\ LET r == download_image(dl.resp, dl.w, dl.save_path, images)
       IN  /\ images' = r.images
           /\ dl' = [dl EXCEPT !.state = "returned", !.ret = r.ret, !.msg = r.msg,
                               !.opened = r.opened]
    /\ imgCalls' = imgCalls + 1
    /\ UNCHANGED <<clock, dirs, metas, summary, readme, pc, outcome, runs, locals,
                   written, apiCalls, before, scanned>>

SpecDownload == InitDownload /\ [][DownloadCall]_vars

----------------------------------------------------------------------------
(* Properties *)

Running == pc \in {"fetch", "filter", "selected", "loop", "summary", "exit"}

\* the date and time key of the running process
RunDate == DateOf(now)
RunTime == TimeOf(now)

HasKey(p, d, t) == p.name.date = d /\ p.name.time = t

\* the image and metadata files the archive held when the process started
FilesBefore == DOMAIN before.images \cup DOMAIN before.metas

\* no file of the archive carried this run's key when it started
KeyFresh == \A p \in FilesBefore : ~HasKey(p, RunDate, RunTime)

\* the image and metadata files the process has opened for writing
WrittenFiles ==
    {written[i] : i \in {j \in 1..Len(written) :
                           written[j].name.prefix \in {"camera", "metadata"}}}

\* the image files in the run's date directory that carry its key
RunImageFiles ==
    {p \in DOMAIN images : p.dir = RunDate /\ HasKey(p, RunDate, RunTime)}

EntryPath(e) == PathIn(RunDate, e.filename)

LoopOver == pc = "loop" /\ idx > Len(checkpoint_cameras)

\* C1: while the per-camera loop runs and when it ends, metadata['cameras']
\* has successful_downloads entries, every camera passed so far was counted
\* exactly once, as a success or as a failure, and failed_downloads is the
\* number of cameras whose download failed or whose ImageLink is empty; at
\* the end of the loop the two counters add up to the selected cameras.
C1_CountersMatch ==
    pc \in {"loop", "summary"} =>
        /\ Len(metadata.cameras) = successful_downloads
        /\ Len(log) = idx - 1
        /\ successful_downloads + failed_downloads = idx - 1
        /\ failed_downloads =
             Cardinality({i \in 1..Len(log) : log[i] \in {"download_failed", "no_url"}})
        /\ \A i \in 1..Len(log) :
             checkpoint_cameras[i].ImageLink = "" => log[i] = "no_url"
        /\ (LoopOver \/ pc = "summary") =>
             successful_downloads + failed_downloads = Len(checkpoint_cameras)

C1_Witness ==
    /\ LoopOver
    /\ log = <<"no_url", "saved">>
    /\ failed_downloads = 1
    /\ successful_downloads = 1

\* C2 as stated: no file a run opens for writing existed before the run.
C2_NeverOverwrites ==
    Running => \A p \in WrittenFiles : p \notin FilesBefore

\* C2 as amended: a run whose date and time key is carried by no file of the
\* archive opens no image or metadata file that existed before it, and every
\* such file keeps its content.
C2_FreshKeyNeverOverwrites ==
    (Running /\ apiKey # "" /\ KeyFresh) =>
        /\ \A p \in WrittenFiles : p \notin FilesBefore
        /\ \A p \in DOMAIN before.images :
             p \in DOMAIN images /\ images[p] = before.images[p]
        /\ \A p \in DOMAIN before.metas :
             p \in DOMAIN metas /\ metas[p] = before.metas[p]

C2_Witness ==
    /\ pc = "summary"
    /\ KeyFresh
    /\ DOMAIN before.images # {}
    /\ DOMAIN before.metas # {}
    /\ \E p \in WrittenFiles : p.name.prefix = "camera" /\ p.dir \in before.dirs

\* C3: between runs, when summary.json exists, its total capture count is the
\* number of metadata files in the archive and each listed day's counts are
\* the numbers of metadata and image files in that date directory.
C3_SummaryMatchesDisk ==
    (pc \in {"idle", "exit"} /\ summary.exists) =>
        /\ summary.total_captures = Cardinality(DOMAIN metas)
        /\ \A i \in 1..Len(summary.days) :
             LET day == summary.days[i]
             IN  /\ day.date \in dirs
                 /\ day.captures = Cardinality({p \in DOMAIN metas : p.dir = day.date})
                 /\ day.images = Cardinality({p \in DOMAIN images : p.dir = day.date})

C3_Witness ==
    /\ pc = "exit"
    /\ outcome = "no_data"
    /\ summary.exists
    /\ summary.total_captures = 1
    /\ Cardinality(dirs) > summary.total_days
    /\ \E i \in 1..Len(summary.days) : summary.days[i].images = 1

CT_jpeg == <<"i","m","a","g","e","/","j","p","e","g">>
CT_PNG  == <<"I","M","A","G","E","/","P","N","G">>

\* the response declares an image, in either case of the letters
DeclaresImage(resp) == resp.has_content_type /\ resp.content_type \in {CT_jpeg, CT_PNG}

\* C4: a call of download_image whose response has a success status but
\* declares no image, or has fewer than 1000 bytes, returns False and leaves
\* the image files as they were, without opening the destination; the
\* destination is opened only when both checks have passed.
C4_RejectsBeforeWriting ==
    dl.state = "returned" =>
        /\ (dl.resp.kind = "ok" /\ (~DeclaresImage(dl.resp) \/ dl.resp.length < 1000)) =>
             /\ dl.ret = FALSE
             /\ ~dl.opened
             /\ images = before.images
        /\ dl.opened => (dl.resp.kind = "ok" /\ DeclaresImage(dl.resp)
                         /\ dl.resp.length >= 1000)

C4_Witness ==
    /\ dl.state = "returned"
    /\ dl.resp.kind = "ok"
    /\ dl.resp.content_type = CT_PNG
    /\ dl.resp.length = 999
    /\ dl.w = "ok"
    /\ dl.ret = FALSE
    /\ Destination \in DOMAIN images

\* the positions of the records whose CameraID is on the watchlist
IdPositions ==
    {i \in 1..Len(cameras) :
        cameras[i].CameraID \in {"2701", "2702", "4703", "4713", "4714"}}

\* the positions of the records whose Location names a checkpoint
KeywordPositions ==
    {i \in 1..Len(cameras) : cameras[i] \in {CamTuas, CamCauseway, CamWoodlandsAve,
                                             CamTuasWest}}

\* the k-th smallest member of a set of positions
Nth(S, k) == CHOOSE i \in S : Cardinality({j \in S : j <= i}) = k

\* seq is the records of cameras at the positions S, in upstream order
IsSelection(seq, S) ==
    /\ Len(seq) = Cardinality(S)
    /\ \A k \in 1..Len(seq) : seq[k] = cameras[Nth(S, k)]

\* C5: the keyword fallback is applied exactly when no record carries a
\* watchlisted CameraID; otherwise the selection is the records with a
\* watchlisted CameraID, in upstream order.
C5_FallbackIffNoIdMatch ==
    pc = "selected" =>
        /\ usedFallback <=> IdPositions = {}
        /\ IdPositions # {} => IsSelection(checkpoint_cameras, IdPositions)
        /\ IdPositions = {} => IsSelection(checkpoint_cameras, KeywordPositions)

C5_Witness ==
    /\ pc = "selected"
    /\ cameras = <<CamTuas, CamWoodlandsAve, CamCauseway>>
    /\ checkpoint_cameras = <<CamTuas, CamCauseway>>
    /\ ~usedFallback

\* C6: a process started without LTA_API_KEY ends at once, having created no
\* directory, written no file and sent no request.
C6_NoKeyNoIO ==
    (Running /\ apiKey = "") =>
        /\ pc = "exit"
        /\ outcome = "config_error"
        /\ Snapshot = before
        /\ written = <<>>
        /\ apiCalls = 0
        /\ imgCalls = 0

C6_Witness ==
    /\ pc = "exit"
    /\ outcome = "config_error"
    /\ apiKey = ""
    /\ before.summary.exists
    /\ DOMAIN before.images # {}

\* the responses from which the feed client has no records to give
YieldsNoRecords(resp) ==
    \/ resp.kind \in FeedErrorKinds
    \/ resp.kind = "value_list" /\ Len(resp.value) = 0

\* C7: when the upstream response yields no records, get_traffic_images
\* returns an empty list without raising and the run ends at the empty-feed
\* check, having written no image and no metadata document.
C7_NoRecordsAbortsGracefully ==
    (pc = "exit" /\ YieldsNoRecords(feed)) =>
        /\ outcome = "no_data"
        /\ images = before.images
        /\ metas = before.metas

\* the positions of the trace at which a file of the given prefix was opened
OpenedAt(prefix) == {i \in 1..Len(written) : written[i].name.prefix = prefix}

\* C8: a run that passes the key check and the empty-feed check writes its
\* metadata document exactly once, whatever its cameras did, and writes
\* summary.json once, later, so that the summary counts that document.
C8_OneMetadataThenSummary ==
    /\ pc = "summary" =>
         /\ Cardinality(OpenedAt("metadata")) = 1
         /\ OpenedAt("summary") = {}
    /\ (pc = "exit" /\ outcome \notin {"config_error", "no_data", "crashed"}) =>
         /\ outcome = "completed"
         /\ Cardinality(OpenedAt("metadata")) = 1
         /\ Cardinality(OpenedAt("summary")) = 1
         /\ \A i \in OpenedAt("metadata"), j \in OpenedAt("summary") :
              /\ i < j
              /\ written[i] \in DOMAIN metas
              /\ HasKey(written[i], RunDate, RunTime)
              /\ metas[written[i]].cameras = metadata.cameras
              /\ \E d \in 1..Len(summary.days) :
                   /\ summary.days[d].date = written[i].dir
                   /\ summary.days[d].captures =
                        Cardinality({p \in DOMAIN metas : p.dir = written[i].dir})
         /\ summary.exists
         /\ summary.total_captures = Cardinality(DOMAIN metas)

C8_Witness ==
    /\ pc = "exit"
    /\ outcome = "completed"
    /\ Len(checkpoint_cameras) = 0
    /\ successful_downloads = 0
    /\ summary.total_captures = 2

\* a summary document without its last_updated field
Counts(s) == [s EXCEPT !.last_updated = 0]

\* C9 as stated: a call of generate_summary on an archive whose image and
\* metadata files are as the previous call saw them leaves summary.json as
\* it was.
C9_SameSummary ==
    [][(GenerateSummaryCall /\ summary.exists
        /\ scanned.images = images /\ scanned.metas = metas)
       => summary' = summary]_vars

\* C9 as amended: a call of generate_summary on an archive whose date
\* directories, image files and metadata files are as the previous call saw
\* them writes a summary that differs from the previous one in last_updated
\* at most.
C9_SameCounts ==
    [][(GenerateSummaryCall /\ summary.exists /\ scanned = Tree)
       => (summary'.exists /\ Counts(summary') = Counts(summary))]_vars

C9_Witness ==
    /\ pc = "exit"
    /\ outcome = "summarised"
    /\ before.summary.exists
    /\ before.summary.total_captures = 1
    /\ before.summary.last_updated < summary.last_updated
    /\ Counts(before.summary) = Counts(summary)
    /\ [dirs |-> before.dirs, images |-> before.images, metas |-> before.metas] = Tree

DistinctIds ==
    \A i, j \in 1..Len(checkpoint_cameras) :
        i # j => checkpoint_cameras[i].CameraID # checkpoint_cameras[j].CameraID

====
